---- MODULE Spec2Model ----
(***************************************************************************)
(* A model of goqueue (queue.go): a goroutine-safe queue with blocking,    *)
(* timed and no-wait Put and Get.  One mutex guards three lists: the       *)
(* stored items, the blocked Put operators and the blocked Get operators.  *)
(* Every section of code that runs between mutex.Lock() and                *)
(* mutex.Unlock() is one step; receiving from a waiter's channel and the   *)
(* expiry of a timer happen outside the mutex and are steps of their own.  *)
(***************************************************************************)
EXTENDS Integers, Sequences, FiniteSets, TLC

\* ------------------------------------------------------------------ bounds
MaxThreads == 3      \* goroutines calling the queue
MaxCap == 2          \* New(maxSize) is called with maxSize in 0..MaxCap
MaxVal == 2          \* Put is called with values 1..MaxVal
MaxWaiters == 3      \* waiters (channels) created over a run
MaxCalls == 4        \* Put and Get calls started over a run

Threads == 1..MaxThreads
Waiters == 1..MaxWaiters
NoThread == 0        \* the mutex is not held
NoElem == 0          \* a nil *list.Element

\* Timeouts in tenths of a second: no-wait, wait for ever, 0.1 s and 1 s.
Timeouts == {-10, 0, 1, 10}

\* time.Second, in tenths of a second.
Second == 10

\* time.Duration(timeout): the float64 number of seconds converted to an
\* int64, which drops its fraction.
Duration(timeout) ==
  IF timeout >= 0 THEN timeout \div Second ELSE -((-timeout) \div Second)

\* time.Duration(timeout) * time.Second, the argument of time.After (lines
\* 143 and 188), in tenths of a second.
AfterDuration(timeout) == Duration(timeout) * Second

\* ------------------------------------------------------------------ values
\* What an interface{} holds in this program: a caller's value, the
\* *list.Element of a blocked Put (line 195), the wake-up `true` (line 68),
\* or nil.
Val(x) == [tag |-> "val", x |-> x]
Elem(w) == [tag |-> "elem", x |-> w]
True == [tag |-> "true", x |-> 0]
Nil == [tag |-> "nil", x |-> 0]

ErrNil == "nil"
ErrEmptyQueue == "queue is empty"
ErrFullQueue == "queue is full"

VARIABLES
  maxSize,   \* Queue.maxSize
  mutex,     \* Queue.mutex: NoThread, or the thread that locked it last
  items,     \* Queue.items
  putters,   \* Queue.putters: the waiters of blocked Put operators
  getters,   \* Queue.getters: the waiters of blocked Get operators
  chan,      \* the buffer (capacity 1) of every waiter made so far
  nwaiters,  \* the number of waiters made so far
  pc,        \* where each thread is in its call
  frame,     \* each thread's locals: val, timeout, e, v
  ncalls,    \* Put and Get calls started
  nPutOk,    \* Put calls that returned nil
  nGetOk,    \* Get calls that returned a value and a nil error
  expired,   \* the waiters whose call returned on its timer
  ret,       \* what the last step returned to its caller, if it returned
  seqLog     \* the calls of a run of calls made one after another

vars == <<maxSize, mutex, items, putters, getters, chan, nwaiters, pc, frame,
          ncalls, nPutOk, nGetOk, expired, ret, seqLog>>

\* ------------------------------------------------------------------ helpers
Remove(list, e) == SelectSeq(list, LAMBDA x : x # e)

InList(list, e) == \E i \in 1..Len(list) : list[i] = e

\* The lists and channels a locked section works on.  blocked: a send found
\* the waiter's buffer full, and the section stays there with the mutex held.
Q == [items |-> items, putters |-> putters, getters |-> getters,
      chan |-> chan, blocked |-> FALSE, ok |-> FALSE]

size(q) == Len(q.items)

isempty(q) == size(q) = 0

\* isfull as a slip would have it: without the maxSize > 0 test.
isfullNoZero(q) == maxSize <= size(q)

isfull(q) == maxSize > 0 /\ maxSize <= size(q)

\* w <- msg on a channel made by newWaiter (capacity 1).
Send(q, w, msg) ==
  IF q.chan[w] # <<>>
  THEN [q EXCEPT !.blocked = TRUE]
  ELSE [q EXCEPT !.chan[w] = <<msg>>]

\* put as a slip would have it: PushFront instead of PushBack.
putFront(q, val) == [q EXCEPT !.items = <<val>> \o @]

put(q, val) == [q EXCEPT !.items = Append(@, val)]

\* get removes the front item; the item itself is Head(q.items).
get(q) == [q EXCEPT !.items = Tail(@)]

\* notifyPutter without q.putters.Remove(e) (line 67).
notifyPutterKept(q, getter) ==
  LET q1 == [q EXCEPT !.getters = Remove(@, getter)]
  IN IF Len(q1.putters) = 0
     THEN [q1 EXCEPT !.ok = FALSE]
     ELSE [Send(q1, Head(q1.putters), True) EXCEPT !.ok = TRUE]

notifyPutter(q, getter) ==
  LET q1 == [q EXCEPT !.getters = Remove(@, getter)]
  IN IF Len(q1.putters) = 0
     THEN [q1 EXCEPT !.ok = FALSE]
     ELSE LET e == Head(q1.putters)
              q2 == [q1 EXCEPT !.putters = Tail(@)]
          IN [Send(q2, e, True) EXCEPT !.ok = TRUE]

\* notifyGetter that finds no getter even when one is listed.
notifyGetterNone(q, putter, val) ==
  [q EXCEPT !.putters = Remove(@, putter), !.ok = FALSE]

\* notifyGetter as a slip would have it: q.getters.Back() instead of Front().
notifyGetterBack(q, putter, val) ==
  LET q1 == [q EXCEPT !.putters = Remove(@, putter)]
      n == Len(q1.getters)
  IN IF n = 0
     THEN [q1 EXCEPT !.ok = FALSE]
     ELSE LET e == q1.getters[n]
              q2 == [q1 EXCEPT !.getters = SubSeq(@, 1, n - 1)]
          IN [Send(q2, e, val) EXCEPT !.ok = TRUE]

notifyGetter(q, putter, val) ==
  LET q1 == [q EXCEPT !.putters = Remove(@, putter)]
  IN IF Len(q1.getters) = 0
     THEN [q1 EXCEPT !.ok = FALSE]
     ELSE LET e == Head(q1.getters)
              q2 == [q1 EXCEPT !.getters = Tail(@)]
          IN [Send(q2, e, val) EXCEPT !.ok = TRUE]

\* clearPending without its first loop (lines 87-89).
clearPuttersSkipped(q) == q

RECURSIVE clearPutters(_)
clearPutters(q) ==
  IF ~q.blocked /\ ~isfull(q) /\ Len(q.putters) # 0
  THEN clearPutters(notifyPutter(q, NoElem))
  ELSE q

RECURSIVE clearGetters(_)
clearGetters(q) ==
  IF ~q.blocked /\ ~isempty(q) /\ Len(q.getters) # 0
  THEN clearGetters(notifyGetter(get(q), NoElem, Head(q.items)))
  ELSE q

clearPending(q) == clearGetters(clearPutters(q))


\* newWaiter with newPutter / newGetter: the next channel, pushed at the back.
newWaiter == nwaiters + 1

newPutter(q) == [q EXCEPT !.putters = Append(@, newWaiter)]

newGetter(q) == [q EXCEPT !.getters = Append(@, newWaiter)]

\* ------------------------------------------------------------------ state
\* d: the duration a blocked call with timeout # 0 hands to time.After.
IdleFrame == [val |-> 0, timeout |-> 0, e |-> NoElem, v |-> Nil, d |-> 0]

NoRet == [op |-> "none", nowait |-> FALSE, v |-> Nil, err |-> ErrNil]

Returned(op, timeout, v, err) ==
  [op |-> op, nowait |-> (timeout < 0), v |-> v, err |-> err]

\* The entry of a call in seqLog: the call, what it returned and the Size()
\* of the queue after it.
Event(r, q) == [op |-> r.op, nowait |-> r.nowait, v |-> r.v, err |-> r.err,
                size |-> size(q)]

AllIdle == \A t \in Threads : pc[t] = "idle"

\* Goroutines have no identity in the program: the next call is made by the
\* first thread that is not in a call.
Caller(t) ==
  /\ pc[t] = "idle"
  /\ \A u \in Threads : u < t => pc[u] # "idle"

\* No call is running, nothing is stored and nobody is in a waiter list.
IdleEmpty ==
  /\ AllIdle
  /\ mutex = NoThread
  /\ items = <<>> /\ putters = <<>> /\ getters = <<>>

\* seqLog follows the calls made one after another, each returning before
\* the next starts, from a queue that is idle and empty; it is dropped as
\* soon as a call blocks.
LogCall(ev) ==
  IF seqLog # <<>> THEN Append(seqLog, ev)
  ELSE IF IdleEmpty THEN <<ev>>
  ELSE <<>>

Init ==
  /\ maxSize \in 0..MaxCap
  /\ mutex = NoThread
  /\ items = <<>>
  /\ putters = <<>>
  /\ getters = <<>>
  /\ chan = [w \in Waiters |-> <<>>]
  /\ nwaiters = 0
  /\ pc = [t \in Threads |-> "idle"]
  /\ frame = [t \in Threads |-> IdleFrame]
  /\ ncalls = 0
  /\ nPutOk = 0
  /\ nGetOk = 0
  /\ expired = {}
  /\ ret = NoRet
  /\ seqLog = <<>>

\* The lists and channels as a locked section leaves them.
Store(q) ==
  /\ items' = q.items
  /\ putters' = q.putters
  /\ getters' = q.getters
  /\ chan' = q.chan

\* A send inside the locked section found the buffer full: the thread stays
\* in the send and the mutex stays locked.
SendBlocks(t, q) ==
  /\ Store(q)
  /\ mutex' = t
  /\ pc' = [pc EXCEPT ![t] = "SendBlocked"]
  /\ ret' = NoRet
  /\ seqLog' = <<>>
  /\ UNCHANGED <<nwaiters, frame, nPutOk, nGetOk, expired>>

\* The call of thread t returns r.
Return(t, r) ==
  /\ pc' = [pc EXCEPT ![t] = "idle"]
  /\ frame' = [frame EXCEPT ![t] = IdleFrame]
  /\ ret' = r
  /\ nPutOk' = IF r.op = "Put" /\ r.err = ErrNil THEN nPutOk + 1 ELSE nPutOk
  /\ nGetOk' = IF r.op = "Get" /\ r.err = ErrNil THEN nGetOk + 1 ELSE nGetOk

\* Put and Get, lines 133-135 and 180-182: the call puts a new waiter at the
\* back of its list, unlocks the mutex and blocks on the waiter.
Block(t, q, at, val, timeout) ==
  /\ nwaiters < MaxWaiters
  /\ Store(q)
  /\ nwaiters' = newWaiter
  /\ mutex' = NoThread
  /\ pc' = [pc EXCEPT ![t] = at]
  /\ frame' = [frame EXCEPT ![t] =
                 [val |-> val, timeout |-> timeout, e |-> newWaiter,
                  v |-> Nil,
                  d |-> IF timeout = 0 THEN 0 ELSE AfterDuration(timeout)]]
  /\ ret' = NoRet
  /\ seqLog' = <<>>
  /\ UNCHANGED <<nPutOk, nGetOk, expired>>

\* Put, lines 168-180: what Put does after clearPending, by its timeout and
\* isfull.
\* PutPath as a slip would have it: a Put that may wait always waits.
PutPathWaits(timeout, full) ==
  IF timeout < 0 THEN (IF full THEN "fail" ELSE "store") ELSE "block"

PutPath(timeout, full) ==
  IF timeout < 0 /\ full THEN "fail"
  ELSE IF ~full THEN "store"
  ELSE "block"

\* GetPath as a slip would have it: without the no-wait test of line 121.
GetPathNoFail(timeout, empty) == IF ~empty THEN "take" ELSE "block"

\* Get, lines 121-133: what Get does after clearPending, by its timeout and
\* isempty.
GetPath(timeout, empty) ==
  IF timeout < 0 /\ empty THEN "fail"
  ELSE IF ~empty THEN "take"
  ELSE "block"

\* ------------------------------------------------------------------ Put
\* Put, lines 165-181: lock, clearPending, then fail, store or block.
PutStart(t, val, timeout) ==
  /\ Caller(t)
  /\ mutex = NoThread
  /\ ncalls < MaxCalls
  /\ ncalls' = ncalls + 1
  /\ LET q1 == clearPending(Q)
         full == isfull(q1)
         q2 == notifyGetter(q1, NoElem, Val(val))
         q3 == IF q2.ok THEN q2 ELSE put(q2, Val(val))
         rFull == Returned("Put", timeout, Val(val), ErrFullQueue)
         rNil == Returned("Put", timeout, Val(val), ErrNil)
     IN CASE q1.blocked -> SendBlocks(t, q1)
          [] ~q1.blocked /\ PutPath(timeout, full) = "fail" ->
               \* line 169 returns with the mutex still locked
               /\ Store(q1)
               /\ mutex' = t
               /\ Return(t, rFull)
               /\ seqLog' = LogCall(Event(rFull, q1))
               /\ UNCHANGED <<nwaiters, expired>>
          [] ~q1.blocked /\ PutPath(timeout, full) = "store" /\ q2.blocked ->
               SendBlocks(t, q2)
          [] ~q1.blocked /\ PutPath(timeout, full) = "store" /\ ~q2.blocked ->
               /\ Store(q3)
               /\ mutex' = NoThread
               /\ Return(t, rNil)
               /\ seqLog' = LogCall(Event(rNil, q3))
               /\ UNCHANGED <<nwaiters, expired>>
          [] OTHER -> Block(t, newPutter(q1), "PutWait", val, timeout)
  /\ UNCHANGED maxSize

\* Put, lines 184 and 187: the blocked Put receives its wake-up.
PutReceive(t) ==
  /\ pc[t] = "PutWait"
  /\ chan[frame[t].e] # <<>>
  /\ chan' = [chan EXCEPT ![frame[t].e] = <<>>]
  /\ pc' = [pc EXCEPT ![t] = "PutWoken"]
  /\ ret' = NoRet
  /\ UNCHANGED <<maxSize, mutex, items, putters, getters, nwaiters, frame,
                 ncalls, nPutOk, nGetOk, expired, seqLog>>

\* Put, lines 188-189: the timer of a Put with timeout # 0 fires.
PutTimeout(t) ==
  /\ pc[t] = "PutWait"
  /\ frame[t].timeout # 0
  /\ Return(t, Returned("Put", frame[t].timeout, Val(frame[t].val),
                        ErrFullQueue))
  /\ expired' = expired \cup {[e |-> frame[t].e, op |-> "Put"]}
  /\ UNCHANGED <<maxSize, mutex, items, putters, getters, chan, nwaiters,
                 ncalls, seqLog>>

\* Put, lines 193-198: the woken Put locks and stores.
PutFinish(t) ==
  /\ pc[t] = "PutWoken"
  /\ mutex = NoThread
  /\ LET q1 == notifyGetter(Q, frame[t].e, Val(frame[t].val))
         q2 == IF q1.ok THEN q1 ELSE put(q1, Elem(frame[t].e))
         rNil == Returned("Put", frame[t].timeout, Val(frame[t].val),
                          ErrNil)
     IN IF q1.blocked
        THEN SendBlocks(t, q1)
        ELSE /\ Store(q2)
             /\ mutex' = NoThread
             /\ Return(t, rNil)
             /\ UNCHANGED <<nwaiters, expired, seqLog>>
  /\ UNCHANGED <<maxSize, ncalls>>

\* ------------------------------------------------------------------ Get
\* Get, lines 118-134: lock, clearPending, then fail, take or block.
GetStart(t, timeout) ==
  /\ Caller(t)
  /\ mutex = NoThread
  /\ ncalls < MaxCalls
  /\ ncalls' = ncalls + 1
  /\ LET q1 == clearPending(Q)
         empty == isempty(q1)
         q2 == notifyPutter(get(q1), NoElem)
         rEmpty == Returned("Get", timeout, Nil, ErrEmptyQueue)
         rNil == Returned("Get", timeout, Head(q1.items), ErrNil)
     IN CASE q1.blocked -> SendBlocks(t, q1)
          [] ~q1.blocked /\ GetPath(timeout, empty) = "fail" ->
               /\ Store(q1)
               /\ mutex' = NoThread
               /\ Return(t, rEmpty)
               /\ seqLog' = LogCall(Event(rEmpty, q1))
               /\ UNCHANGED <<nwaiters, expired>>
          [] ~q1.blocked /\ GetPath(timeout, empty) = "take" /\ q2.blocked ->
               SendBlocks(t, q2)
          [] ~q1.blocked /\ GetPath(timeout, empty) = "take" /\ ~q2.blocked ->
               /\ Store(q2)
               /\ mutex' = NoThread
               /\ Return(t, rNil)
               /\ seqLog' = LogCall(Event(rNil, q2))
               /\ UNCHANGED <<nwaiters, expired>>
          [] OTHER -> Block(t, newGetter(q1), "GetWait", 0, timeout)
  /\ UNCHANGED maxSize

\* Get, lines 139 and 142: the blocked Get receives v from its waiter.
GetReceive(t) ==
  /\ pc[t] = "GetWait"
  /\ chan[frame[t].e] # <<>>
  /\ chan' = [chan EXCEPT ![frame[t].e] = <<>>]
  /\ frame' = [frame EXCEPT ![t].v = Head(chan[frame[t].e])]
  /\ pc' = [pc EXCEPT ![t] = "GetWoken"]
  /\ ret' = NoRet
  /\ UNCHANGED <<maxSize, mutex, items, putters, getters, nwaiters, ncalls,
                 nPutOk, nGetOk, expired, seqLog>>

\* Get, lines 143-144: the timer of a Get with timeout # 0 fires.
GetTimeout(t) ==
  /\ pc[t] = "GetWait"
  /\ frame[t].timeout # 0
  /\ Return(t, Returned("Get", frame[t].timeout, Nil, ErrEmptyQueue))
  /\ expired' = expired \cup {[e |-> frame[t].e, op |-> "Get"]}
  /\ UNCHANGED <<maxSize, mutex, items, putters, getters, chan, nwaiters,
                 ncalls, seqLog>>

\* Get, lines 147-150: the woken Get locks, wakes a Put and returns v.
GetFinish(t) ==
  /\ pc[t] = "GetWoken"
  /\ mutex = NoThread
  /\ LET q1 == notifyPutter(Q, frame[t].e)
         rNil == Returned("Get", frame[t].timeout, frame[t].v, ErrNil)
     IN IF q1.blocked
        THEN SendBlocks(t, q1)
        ELSE /\ Store(q1)
             /\ mutex' = NoThread
             /\ Return(t, rNil)
             /\ UNCHANGED <<nwaiters, expired, seqLog>>
  /\ UNCHANGED <<maxSize, ncalls>>

\* ------------------------------------------------------------------ observers
\* Size, IsEmpty and IsFull, lines 206-232: lock, read, unlock.
Observed(t, op, v) ==
  /\ Caller(t)
  /\ mutex = NoThread
  /\ ret' = Returned(op, 0, v, ErrNil)
  /\ UNCHANGED <<maxSize, mutex, items, putters, getters, chan, nwaiters, pc,
                 frame, ncalls, nPutOk, nGetOk, expired, seqLog>>

Bool(b) == [tag |-> "bool", x |-> IF b THEN 1 ELSE 0]

Num(n) == [tag |-> "int", x |-> n]

Size(t) == Observed(t, "Size", Num(size(Q)))

IsEmpty(t) == Observed(t, "IsEmpty", Bool(isempty(Q)))

IsFull(t) == Observed(t, "IsFull", Bool(isfull(Q)))

\* ------------------------------------------------------------------ spec
Next ==
  \E t \in Threads :
    \/ \E val \in 1..MaxVal, timeout \in Timeouts : PutStart(t, val, timeout)
    \/ PutReceive(t)
    \/ PutTimeout(t)
    \/ PutFinish(t)
    \/ \E timeout \in Timeouts : GetStart(t, timeout)
    \/ GetReceive(t)
    \/ GetTimeout(t)
    \/ GetFinish(t)
    \/ Size(t)
    \/ IsEmpty(t)
    \/ IsFull(t)

Spec == Init /\ [][Next]_vars

\* ------------------------------------------------------------------ properties
PutOk(ev) == ev.op = "Put" /\ ev.err = ErrNil

GetOk(ev) == ev.op = "Get" /\ ev.err = ErrNil

\* The queue holds nothing before the i-th call of seqLog.
EmptyBefore(i) == i = 1 \/ seqLog[i - 1].size = 0

\* C1: FIFO order.  In a run of calls made one after another on an idle
\* queue with no waiter, whenever n successful Puts of v1..vn start from an
\* empty queue and m <= n Gets follow them, each of these Gets succeeds and
\* the j-th of them returns vj.
C1_FifoOrder ==
  \A i \in 1..Len(seqLog), n \in 1..Len(seqLog), m \in 0..Len(seqLog) :
    ( /\ i + n + m - 1 <= Len(seqLog)
      /\ m <= n
      /\ EmptyBefore(i)
      /\ \A j \in i..(i + n - 1) : PutOk(seqLog[j])
      /\ \A j \in (i + n)..(i + n + m - 1) : seqLog[j].op = "Get" )
    => \A j \in 1..m : /\ GetOk(seqLog[i + n + j - 1])
                       /\ seqLog[i + n + j - 1].v = seqLog[i + j - 1].v

\* Two Puts of different values, then two Gets that returned, one after
\* another on the idle queue.
C1_Witness ==
  /\ Len(seqLog) = 4
  /\ PutOk(seqLog[1]) /\ PutOk(seqLog[2])
  /\ seqLog[1].v # seqLog[2].v
  /\ GetOk(seqLog[3]) /\ GetOk(seqLog[4])

\* C2: capacity bound.  In a run of calls made one after another on a queue
\* with maxSize = k > 0, after k successful no-wait Puts from an empty queue:
\* a further no-wait Put fails with ErrFullQueue; the Get that follows can
\* take the lock (the mutex is free after the failed Put) and succeeds; the
\* no-wait Put after that Get succeeds and the one after it fails again.
C2_CapacityBound ==
  \A i \in 1..Len(seqLog) :
    LET k == maxSize
        At(j) == seqLog[i + k + j]
        Has(j) == i + k + j <= Len(seqLog)
        NoWaitPut(ev) == ev.op = "Put" /\ ev.nowait
    IN ( /\ k > 0
         /\ EmptyBefore(i)
         /\ Has(0)
         /\ \A j \in i..(i + k - 1) : PutOk(seqLog[j]) /\ seqLog[j].nowait
         /\ NoWaitPut(At(0)) )
       => /\ At(0).err = ErrFullQueue
          /\ Len(seqLog) = i + k => mutex = NoThread
          /\ (Has(1) /\ At(1).op = "Get") => GetOk(At(1))
          /\ (Has(2) /\ At(1).op = "Get" /\ NoWaitPut(At(2))) => PutOk(At(2))
          /\ (Has(3) /\ At(1).op = "Get" /\ NoWaitPut(At(2))
                /\ NoWaitPut(At(3))) => At(3).err = ErrFullQueue

\* C3: when a Put or Get has just returned, with whatever result, the mutex
\* is not locked (a locked section is one step, so the mutex is locked between
\* steps only if a call left it so).
C3_LockReleasedOnReturn ==
  ret.op \in {"Put", "Get"} => mutex = NoThread

\* C4: no lost or duplicated values.  Once all calls have returned, the
\* number of successful Puts is the number of successful Gets plus Size().
C4_NoLostValues ==
  AllIdle => nPutOk = nGetOk + size(Q)

\* C5: capacity invariant.  With maxSize = k > 0 the number of stored items
\* never exceeds k.
C5_CapacityInvariant ==
  maxSize > 0 => size(Q) <= maxSize

\* C6: race resolution.  When a blocked Get returns ErrEmptyQueue on its
\* timer, no value has been delivered to its waiter: a Put that raced with
\* the timer either has its value returned by this Get or has not given it
\* to this Get at all.
C6_TimedOutGetConsumedNothing ==
  [][\A t \in Threads :
       (pc[t] = "GetWait" /\ pc'[t] = "idle") => chan[frame[t].e] = <<>>]_vars

\* C7: the waiter of a Get that returned ErrEmptyQueue on its timer is no
\* longer in the list of blocked Get operators.
C7_TimedOutGetterRemoved ==
  \A x \in expired : x.op = "Get" => ~InList(getters, x.e)

\* C8: the waiter of a Put that returned ErrFullQueue on its timer is no
\* longer in the list of blocked Put operators, and the element of that Put
\* is not in the storage.
C8_TimedOutPutterRemoved ==
  \A x \in expired :
    x.op = "Put" => /\ ~InList(putters, x.e)
                    /\ ~InList(items, Elem(x.e))

\* No call holds the mutex or is about to take it: every thread is outside
\* a call or blocked on a waiter that has received nothing.
Quiescent ==
  /\ mutex = NoThread
  /\ \A t \in Threads :
       \/ pc[t] = "idle"
       \/ pc[t] \in {"PutWait", "GetWait"} /\ chan[frame[t].e] = <<>>

\* C9: no lost wake-up for producers.  In a quiescent state no Put is
\* blocked on its waiter while the queue is not full.
C9_NoParkedPutWithFreeCapacity ==
  Quiescent => \A t \in Threads : pc[t] = "PutWait" => isfull(Q)

\* C10: value integrity.  Every stored item, and every item a successful
\* Get returns, is a value some Put was called with, never a waiter's list
\* element.
C10_ValueIntegrity ==
  /\ \A i \in 1..Len(items) : items[i].tag = "val"
  /\ GetOk(ret) => ret.v.tag = "val"

\* The step starts a Put call, which returns in the step or blocks.
StartsPut ==
  /\ ncalls' = ncalls + 1
  /\ \/ ret'.op = "Put"
     \/ \E t \in Threads : pc[t] = "idle" /\ pc'[t] = "PutWait"

\* The step starts a Get call, which returns in the step or blocks.
StartsGet ==
  /\ ncalls' = ncalls + 1
  /\ \/ ret'.op = "Get"
     \/ \E t \in Threads : pc[t] = "idle" /\ pc'[t] = "GetWait"

\* Thread t is blocked in Get on a waiter that has received nothing.
ParkedGet(t) == pc[t] = "GetWait" /\ chan[frame[t].e] = <<>>

\* Thread t is blocked in Put on a waiter that has received nothing.
ParkedPut(t) == pc[t] = "PutWait" /\ chan[frame[t].e] = <<>>

\* Thread t is the blocked Get that has waited longest.
OldestParkedGet(t) ==
  /\ ParkedGet(t)
  /\ \A u \in Threads : ParkedGet(u) => frame[t].e <= frame[u].e

\* C11: rendezvous.  When a Get with timeout = 0 is the oldest consumer
\* blocked on an empty queue and a Put(v, any timeout) is performed, the Put
\* returns nil, the storage is still empty after it and v is in the waiter
\* of that Get (so that the Get returns v when it runs again).
C11_Rendezvous ==
  [][\A t \in Threads :
       ( /\ StartsPut
         /\ OldestParkedGet(t)
         /\ frame[t].timeout = 0
         /\ items = <<>> )
       => /\ PutOk(ret')
          /\ items' = <<>>
          /\ chan'[frame[t].e] = <<ret'.v>>]_vars

\* C12: unbounded queue.  With maxSize = 0 every IsFull returns false, no
\* Put returns ErrFullQueue, and no Put blocks: the list of blocked Put
\* operators is empty and no thread waits in Put.
C12_Unbounded ==
  maxSize = 0 =>
    /\ ret.op = "IsFull" => ret.v = Bool(FALSE)
    /\ ret.op = "Put" => ret.err = ErrNil
    /\ putters = <<>>
    /\ \A t \in Threads : pc[t] \notin {"PutWait", "PutWoken"}

\* An unbounded queue that holds more items than any bounded queue of the
\* model, after one more no-wait Put.
C12_Witness ==
  /\ maxSize = 0
  /\ size(Q) > MaxCap
  /\ PutOk(ret) /\ ret.nowait

\* The step starts a Get call with a negative timeout.
StartsGetNoWait ==
  /\ ncalls' = ncalls + 1
  /\ \/ ret'.op = "Get" /\ ret'.nowait
     \/ \E t \in Threads :
          pc[t] = "idle" /\ pc'[t] = "GetWait" /\ frame'[t].timeout < 0

\* C13: empty no-wait Get.  A Get with a negative timeout that finds the
\* storage empty after clearPending returns (nil, ErrEmptyQueue) in the same
\* step: no thread starts to wait, no waiter is made or listed, and the
\* storage is unchanged.  The first no-wait Get on a new queue is such a call.
C13_EmptyNoWaitGet ==
  [][(StartsGetNoWait /\ size(clearPending(Q)) = 0)
       => /\ ret' = Returned("Get", -1, Nil, ErrEmptyQueue)
          /\ pc' = pc
          /\ nwaiters' = nwaiters
          /\ getters' = clearPending(Q).getters
          /\ items' = items]_vars

\* The first call on a new queue was a no-wait Get and has returned
\* ErrEmptyQueue.
C13_Witness ==
  /\ ncalls = 1
  /\ ret = Returned("Get", -1, Nil, ErrEmptyQueue)
  /\ items = <<>> /\ getters = <<>> /\ nwaiters = 0

\* The step sends to waiter w.
Signaled(w) == chan[w] = <<>> /\ chan'[w] # <<>>

\* Waiters are numbered in the order of newWaiter, so of two waiters in a
\* list the one with the smaller number has waited longer.
ServedInOrder(list, listAfter) ==
  \A w \in Waiters, u \in Waiters :
    ( /\ Signaled(w)
      /\ InList(list, w) /\ InList(list, u)
      /\ u < w )
    => ~InList(listAfter, u)

\* C14: waiter fairness.  When a step signals a waiter of a list, every
\* waiter that was in the same list and had waited longer has left the list
\* in that step too: nobody is served before an older waiter of its kind.
C14_WaiterFifo ==
  [][ServedInOrder(getters, getters') /\ ServedInOrder(putters, putters')]_vars

\* Two Gets are blocked, the one that came first has just been handed the
\* value of the only Put so far, the other is still in the list.
C14_Witness ==
  /\ PutOk(ret) /\ nPutOk = 1 /\ ncalls = 3 /\ nwaiters = 2
  /\ \E t \in Threads, u \in Threads :
       /\ pc[t] = "GetWait" /\ frame[t].e = 1
       /\ pc[u] = "GetWait" /\ frame[u].e = 2
  /\ chan[1] = <<ret.v>>
  /\ getters = <<2>>

\* Thread t is blocked on its waiter (lines 137-146 and 183-191).
Parked(t) == pc[t] \in {"PutWait", "GetWait"}

\* C15: blocking never holds the lock.  While calls are blocked on their
\* waiters no thread holds the mutex between steps, so the next Put, Get,
\* Size, IsEmpty or IsFull of another thread can lock it and run.
C15_ParkedLeavesLockFree ==
  (\E t \in Threads : Parked(t)) => mutex = NoThread

\* C16: timeout expiry.  A call blocked with a positive timeout waits on a
\* timer of that many seconds (both in tenths of a second here); in
\* particular the timer of a fractional timeout is not zero.
C16_TimeoutDuration ==
  \A t \in Threads :
    (Parked(t) /\ frame[t].timeout > 0)
    => /\ frame[t].d = frame[t].timeout
       /\ frame[t].d > 0

\* C17: reconciliation postcondition.  Whenever a Put or Get can start (the
\* mutex is free), the queue clearPending leaves it has no waiter that could
\* be served at once: no putter unless the queue is full, no getter unless
\* the storage is empty; and none of its sends blocks.
C17_ReconciliationPostcondition ==
  mutex = NoThread =>
    LET q == clearPending(Q)
    IN /\ ~q.blocked
       /\ ~isfull(q) => q.putters = <<>>
       /\ ~isempty(q) => q.getters = <<>>

\* A Put or Get can start in a state where clearPending has a putter to
\* signal: two Puts blocked on the full queue and a Get has made room.
C17_Witness ==
  /\ mutex = NoThread
  /\ putters # <<>> /\ ~isfull(Q)
  /\ clearPending(Q).putters = <<>>
  /\ \E w \in Waiters : chan[w] = <<>> /\ clearPending(Q).chan[w] = <<True>>

\* C18: between the locked sections of Put and Get (the mutex is free) the
\* storage is empty or q.getters is empty: no getter, waiting or timed out,
\* is listed while an item is stored.
C18_NoItemWithListedGetter ==
  mutex = NoThread => (items = <<>> \/ getters = <<>>)

\* A Get has timed out and left its waiter behind, and since then a Put has
\* stored an item: the waiter is listed no more.
C18_Witness ==
  /\ mutex = NoThread
  /\ items # <<>>
  /\ getters = <<>>
  /\ \E x \in expired : x.op = "Get" /\ chan[x.e] # <<>>

Listed(w) == InList(getters, w) \/ InList(putters, w)

ListedAfter(w) == InList(getters', w) \/ InList(putters', w)

\* C19: every waiter is signaled at most once.  A step that sends to a
\* waiter takes it from its list, a step lists no waiter but the new one it
\* makes, and no send inside a locked section finds the buffer full.
C19_SignaledAtMostOnce ==
  [][ /\ \A w \in Waiters :
           /\ Signaled(w) => (Listed(w) /\ ~ListedAfter(w))
           /\ (ListedAfter(w) /\ ~Listed(w)) => (w = newWaiter /\ nwaiters' = w)
      /\ \A t \in Threads : pc'[t] # "SendBlocked" ]_vars

\* The waiter of a timed-out Put has been signaled, after its call returned,
\* and is in no list, while a later Put is still blocked on its own waiter.
C19_Witness ==
  /\ \E x \in expired : x.op = "Put" /\ chan[x.e] = <<True>> /\ ~Listed(x.e)
  /\ \E t \in Threads : pc[t] = "PutWait" /\ Listed(frame[t].e)

\* C20: the fast paths ignore the timeout.  With q the queue clearPending
\* leaves: a step that starts a Put, with any timeout, on q not full returns
\* nil in that step with no thread blocked and no waiter made, and the value
\* is in the buffer of the oldest listed getter if there is one, else at the
\* back of the storage; a step that starts a Get, with any timeout, on q not
\* empty returns the front item in that step with no thread blocked and no
\* waiter made, and signals the oldest putter of q if there is one, no other.
C20_FastPathsIgnoreTimeout ==
  [][LET q == clearPending(Q)
     IN /\ (StartsPut /\ ~isfull(q))
           => /\ PutOk(ret')
              /\ pc' = pc /\ nwaiters' = nwaiters /\ mutex' = NoThread
              /\ putters' = q.putters
              /\ IF q.getters # <<>>
                 THEN /\ items' = q.items
                      /\ getters' = Tail(q.getters)
                      /\ chan' = [q.chan EXCEPT ![Head(q.getters)] = <<ret'.v>>]
                 ELSE /\ items' = Append(q.items, ret'.v)
                      /\ getters' = <<>>
                      /\ chan' = q.chan
        /\ (StartsGet /\ ~isempty(q))
           => /\ GetOk(ret') /\ ret'.v = Head(q.items)
              /\ pc' = pc /\ nwaiters' = nwaiters /\ mutex' = NoThread
              /\ items' = Tail(q.items)
              /\ getters' = q.getters
              /\ IF q.putters # <<>>
                 THEN /\ putters' = Tail(q.putters)
                      /\ chan' = [q.chan EXCEPT ![Head(q.putters)] = <<True>>]
                 ELSE /\ putters' = <<>>
                      /\ chan' = q.chan]_vars

\* A Put that was allowed to wait has returned nil at once: no waiter was
\* ever made and its value is the last of the storage.
C20_Witness ==
  /\ PutOk(ret) /\ ~ret.nowait
  /\ nwaiters = 0
  /\ items # <<>> /\ items[Len(items)] = ret.v

====
